---- MODULE Spec2Model ----
(***************************************************************************)
(* Model of dq_health_check.py: the comparison of several rule sheets      *)
(* against one main sheet.  Strings that the code normalises (rule names,  *)
(* header lists) are sequences of one-character strings, so strip, lower   *)
(* and split are computed; strings the code only compares or copies        *)
(* (display names, column names, field names, keys) are plain strings.     *)
(***************************************************************************)
EXTENDS Integers, Sequences, FiniteSets, TLC

VARIABLES sources, df, op, arg, raised, result

vars == <<sources, df, op, arg, raised, result>>

(* ---------------- bounds ---------------- *)

MaxSources == 3

MaxRules == 2

MaxFields == 2

(* rows, and declared fields, of one request over all its sheets *)
MaxTotalRules == 4

MaxTotalFields == 3

(* ---------------- characters and str methods ---------------- *)

CharCode ==
  [c \in {" ", ",", "7", "A", "Y", "a", "b", "n", "x", "y"} |->
     CASE c = " " -> 32 [] c = "," -> 44 [] c = "7" -> 55
       [] c = "A" -> 65 [] c = "Y" -> 89 [] c = "a" -> 97
       [] c = "b" -> 98 [] c = "n" -> 110 [] c = "x" -> 120
       [] c = "y" -> 121]

IsSpace(c) == c = " "

LowerChar(c) == CASE c = "A" -> "a" [] c = "Y" -> "y" [] OTHER -> c

Lower(s) == [i \in 1..Len(s) |-> LowerChar(s[i])]

RECURSIVE LStrip(_)
LStrip(s) == IF s # <<>> /\ IsSpace(Head(s)) THEN LStrip(Tail(s)) ELSE s

RECURSIVE RStrip(_)
RStrip(s) ==
  IF s # <<>> /\ IsSpace(s[Len(s)]) THEN RStrip(SubSeq(s, 1, Len(s) - 1)) ELSE s

Strip(s) == RStrip(LStrip(s))

(* str.split(","): the pieces between commas, empty pieces included *)
RECURSIVE SplitFrom(_, _, _)
SplitFrom(s, i, cur) ==
  IF i > Len(s) THEN <<cur>>
  ELSE IF s[i] = "," THEN <<cur>> \o SplitFrom(s, i + 1, <<>>)
  ELSE SplitFrom(s, i + 1, Append(cur, s[i]))

Split(s) == SplitFrom(s, 1, <<>>)

(* str < str: code-point lexicographic order *)
RECURSIVE StrLess(_, _)
StrLess(s, t) ==
  IF t = <<>> THEN FALSE
  ELSE IF s = <<>> THEN TRUE
  ELSE IF CharCode[Head(s)] # CharCode[Head(t)]
       THEN CharCode[Head(s)] < CharCode[Head(t)]
  ELSE StrLess(Tail(s), Tail(t))

(* sorted(set of str) *)
RECURSIVE Sorted(_)
Sorted(S) ==
  IF S = {} THEN <<>>
  ELSE LET m == CHOOSE x \in S : \A y \in S \ {x} : StrLess(x, y)
       IN <<m>> \o Sorted(S \ {m})

Range(s) == {s[i] : i \in 1..Len(s)}

(* ---------------- DataQualityRule ---------------- *)

normalized_name(r) == Lower(Strip(r.data_quality_control_name))

header_set(r) ==
  IF r.header = <<>> THEN {}
  ELSE {Lower(Strip(h)) : h \in {p \in Range(Split(r.header)) : Strip(p) # <<>>}}

(* ---------------- DataSet ---------------- *)

rule_names(s) == {normalized_name(s.dq_rules[i]) : i \in 1..Len(s.dq_rules)}

(* dict comprehension: a later row with the same key replaces the earlier *)
rule_by_name(s) ==
  [k \in rule_names(s) |->
     LET last == CHOOSE i \in 1..Len(s.dq_rules) :
                   /\ normalized_name(s.dq_rules[i]) = k
                   /\ \A j \in (i + 1)..Len(s.dq_rules) :
                        normalized_name(s.dq_rules[j]) # k
     IN s.dq_rules[last]]

(* ---------------- dict helpers (keys are display names) ---------------- *)

EmptyDict == [k \in {} |-> <<>>]

(* d[k] = v *)
DictSet(d, k, v) == [x \in (DOMAIN d) \cup {k} |-> IF x = k THEN v ELSE d[x]]

(* d.setdefault(k, []).append(v) *)
DictAppend(d, k, v) ==
  DictSet(d, k, IF k \in DOMAIN d THEN Append(d[k], v) ELSE <<v>>)

(* a sources mapping is a sequence of [key, ds] entries in insertion order *)
Keys(srcs) == {srcs[i].key : i \in 1..Len(srcs)}

Lookup(srcs, k) == (CHOOSE i \in 1..Len(srcs) : srcs[i].key = k)

(* ---------------- helpers ---------------- *)

RequiredColumns == {"data_quality_control_name", "header"}

NoError == [type |-> "none", msg |-> "", cols |-> <<>>]

(* the field names of src whose header is falsy or not a column *)
RECURSIVE MissingOf(_, _)
MissingOf(src, i) ==
  IF i > Len(src.fields) THEN <<>>
  ELSE LET f == src.fields[i]
           header == f.meta.header
           rest == MissingOf(src, i + 1)
       IN IF (~f.meta.has_header) \/ header = "" \/ header \notin src.columns
          THEN <<f.field_name>> \o rest
          ELSE rest

RECURSIVE FindMissingFrom(_, _, _)
FindMissingFrom(srcs, i, acc) ==
  IF i > Len(srcs) THEN acc
  ELSE LET src == srcs[i].ds
           missing == MissingOf(src, 1)
       IN FindMissingFrom(srcs, i + 1,
            IF missing # <<>> THEN DictSet(acc, src.name, missing) ELSE acc)

find_missing_headers(srcs) == FindMissingFrom(srcs, 1, EmptyDict)

OkMsg(main) ==
  <<"OK", " All sources have the same number of rules as '", main.name, "'.">>

FailMsg(main, m, s, n) ==
  <<"FAIL", " '", main.name, "' has ", ToString(m), " rules; '", s.name,
    "' has ", ToString(n), ".">>

RECURSIVE CompareFrom(_, _, _)
CompareFrom(main, others, i) ==
  IF i > Len(others) THEN [same |-> TRUE, msg |-> OkMsg(main)]
  ELSE LET s == others[i].ds
           m == main.nrows
           n == s.nrows
       IN IF n # m THEN [same |-> FALSE, msg |-> FailMsg(main, m, s, n)]
          ELSE CompareFrom(main, others, i + 1)

(* the loop keeps going and reports the last differing source *)
RECURSIVE CompareLastFrom(_, _, _)
CompareLastFrom(main, others, i) ==
  IF i = 0 THEN [same |-> TRUE, msg |-> OkMsg(main)]
  ELSE IF others[i].ds.nrows # main.nrows
       THEN [same |-> FALSE,
             msg |-> FailMsg(main, main.nrows, others[i].ds, others[i].ds.nrows)]
  ELSE CompareLastFrom(main, others, i - 1)

compare_rule_counts_last(main, others) == CompareLastFrom(main, others, Len(others))

compare_rule_counts(main, others) == CompareFrom(main, others, 1)

RECURSIVE ExclusiveFrom(_, _, _, _)
ExclusiveFrom(main, others, i, acc) ==
  IF i > Len(others) THEN acc
  ELSE LET s == others[i].ds
           only_there == rule_names(s) \ rule_names(main)
       IN ExclusiveFrom(main, others, i + 1,
            IF only_there # {} THEN DictSet(acc, s.name, Sorted(only_there))
            ELSE acc)

exclusive_rule_names(main, others) == ExclusiveFrom(main, others, 1, EmptyDict)

(* the inner loop of sync_check over the rules of one source *)
RECURSIVE SyncRules(_, _, _, _)
SyncRules(main_index, s, j, acc) ==
  IF j > Len(s.dq_rules) THEN acc
  ELSE LET r == s.dq_rules[j]
           k == normalized_name(r)
       IN IF k \notin DOMAIN main_index THEN SyncRules(main_index, s, j + 1, acc)
          ELSE IF header_set(r) # header_set(main_index[k])
               THEN SyncRules(main_index, s, j + 1,
                      DictAppend(acc, s.name, r.data_quality_control_name))
          ELSE SyncRules(main_index, s, j + 1, acc)

RECURSIVE SyncFrom(_, _, _, _)
SyncFrom(main_index, others, i, acc) ==
  IF i > Len(others) THEN acc
  ELSE SyncFrom(main_index, others, i + 1,
         SyncRules(main_index, others[i].ds, 1, acc))

sync_check(main, others) == SyncFrom(rule_by_name(main), others, 1, EmptyDict)

(* ---------------- orchestration ---------------- *)

NoKey == "None"

OthersOf(srcs, main_key) == SelectSeq(srcs, LAMBDA e : e.key # main_key)

Emoji == [OK |-> "OK", FAIL |-> "FAIL", INFO |-> "INFO"]

(* the checks run although the row counts differ *)
GateOpen(same_count, value) == value

(* "... if same_count else {}" *)
Gate(same_count, value) == IF same_count THEN value ELSE EmptyDict

(* ok computed without the missing-header finding *)
ReportOkWithoutMissing(missing, same_count, exclusives, mismatches) ==
  /\ same_count
  /\ DOMAIN exclusives = {}
  /\ DOMAIN mismatches = {}

(* the "ok" entry of the returned dict *)
ReportOk(missing, same_count, exclusives, mismatches) ==
  /\ DOMAIN missing = {}
  /\ same_count
  /\ DOMAIN exclusives = {}
  /\ DOMAIN mismatches = {}

run_health_check(srcs, main_key) ==
  IF srcs = <<>>
  THEN [raised |-> [type |-> "ValueError", msg |-> "No sources uploaded.",
                    cols |-> <<>>],
        value |-> <<>>]
  ELSE LET missing == find_missing_headers(srcs)
           mk == IF main_key = NoKey THEN srcs[1].key ELSE main_key
       IN IF mk \notin Keys(srcs)
          THEN [raised |-> [type |-> "KeyError", msg |-> mk, cols |-> <<>>],
                value |-> <<>>]
          ELSE LET main == srcs[Lookup(srcs, mk)].ds
                   others == OthersOf(srcs, mk)
                   cmp == compare_rule_counts(main, others)
                   exclusives == Gate(cmp.same, exclusive_rule_names(main, others))
                   mismatches == Gate(cmp.same, sync_check(main, others))
               IN [raised |-> NoError,
                   value |->
                     [ok |-> ReportOk(missing, cmp.same, exclusives, mismatches),
                      missing_headers |-> missing,
                      main_source |-> main.name,
                      rule_count_ok |-> cmp.same,
                      rule_count_msg |-> cmp.msg,
                      exclusives |-> exclusives,
                      mismatches |-> mismatches,
                      emoji |-> Emoji]]

(* ---------------- rule extraction ---------------- *)

(* str(cell) of a spreadsheet cell: text, an integer, or NaN *)
Str(cell) ==
  CASE cell.kind = "str" -> cell.s
    [] cell.kind = "int" -> <<ToString(cell.n)>>
    [] cell.kind = "nan" -> <<"n", "a", "n">>

IsNa(cell) == cell.kind = "nan"

(* every order in which list(set) may enumerate the set S *)
ListsOf(S) ==
  {l \in [1..Cardinality(S) -> S] : \A i, j \in 1..Cardinality(S) : i # j => l[i] # l[j]}

(* the outcomes of rules_from_df(d): the order of list(required - columns)
   is the iteration order of a set of str, which the interpreter's string
   hashing decides per process *)
rules_from_df(d) ==
  IF ~(RequiredColumns \subseteq d.columns)
  THEN {[raised |-> [type |-> "ValueError", msg |-> "Rules sheet missing columns",
                     cols |-> missing],
         value |-> <<>>] : missing \in ListsOf(RequiredColumns \ d.columns)}
  ELSE {[raised |-> NoError,
         value |-> [i \in 1..Len(d.rows) |->
                      [data_quality_control_name |-> Str(d.rows[i].name),
                       header |-> IF IsNa(d.rows[i].header) THEN <<>>
                                  ELSE Str(d.rows[i].header)]]]}

(* ---------------- inputs ---------------- *)

SeqsUpTo(S, n) == UNION {[1..k -> S] : k \in 0..n}

Names == {"f.xlsx", "g.xlsx"}

RuleUniverse ==
  { [data_quality_control_name |-> <<"a">>, header |-> <<"x", ",", "y">>],
    [data_quality_control_name |-> <<" ", "A">>, header |-> <<"Y", " ", ",", "x">>],
    [data_quality_control_name |-> <<"a", " ">>, header |-> <<>>],
    [data_quality_control_name |-> <<"b">>, header |-> <<"x", ",", " ">>] }

FieldUniverse ==
  { [field_name |-> "header", meta |-> [has_header |-> TRUE, header |-> "header"]],
    [field_name |-> "owner", meta |-> [has_header |-> TRUE, header |-> "Header"]],
    [field_name |-> "id", meta |-> [has_header |-> FALSE, header |-> ""]],
    [field_name |-> "blank", meta |-> [has_header |-> TRUE, header |-> ""]] }

(* a fields dict has one entry per field name *)
FieldSeqs ==
  {fs \in SeqsUpTo(FieldUniverse, MaxFields) :
     \A i, j \in 1..Len(fs) : i # j => fs[i].field_name # fs[j].field_name}

(* DataSet(name, dataframe, dq_rules, fields) as app.py builds it: one rule
   per row of the sheet *)
DataSet(name, rules, fields) ==
  [name |-> name, columns |-> RequiredColumns, nrows |-> Len(rules),
   dq_rules |-> rules, fields |-> fields]

KeyOf(i) == "s" \o ToString(i)

RuleDataSets ==
  {DataSet(n, rs, <<>>) : n \in Names, rs \in SeqsUpTo(RuleUniverse, MaxRules)}

FieldDataSets ==
  {DataSet(n, rs, fs) :
     n \in Names,
     rs \in SeqsUpTo({r \in RuleUniverse : r.data_quality_control_name = <<"b">>},
                     MaxRules - 1),
     fs \in FieldSeqs}

Cells ==
  { [kind |-> "str", s |-> <<"a">>, n |-> 0],
    [kind |-> "int", s |-> <<>>, n |-> 7],
    [kind |-> "nan", s |-> <<>>, n |-> 0] }

Columns == RequiredColumns \cup {"owner"}

DfInputs ==
  {[columns |-> cs, rows |-> rows] :
     cs \in SUBSET Columns,
     rows \in SeqsUpTo([name : Cells, header : Cells], MaxRules)}

EmptyDf == [columns |-> {}, rows |-> <<>>]

MainKeys == {NoKey, "zz"} \cup {KeyOf(i) : i \in 1..MaxSources}

(* ---------------- state machine ---------------- *)

Init ==
  /\ sources = <<>>
  /\ df = EmptyDf
  /\ op = "idle"
  /\ arg = NoKey
  /\ raised = NoError
  /\ result = <<>>

RECURSIVE TotalRules(_)
TotalRules(srcs) ==
  IF srcs = <<>> THEN 0 ELSE Head(srcs).ds.nrows + TotalRules(Tail(srcs))

RECURSIVE TotalFields(_)
TotalFields(srcs) ==
  IF srcs = <<>> THEN 0 ELSE Len(Head(srcs).ds.fields) + TotalFields(Tail(srcs))

(* sources[f"s{i}"] = DataSet(...) while the request is being built *)
AddSource(ds) ==
  /\ op = "idle"
  /\ Len(sources) < MaxSources
  /\ TotalRules(sources) + ds.nrows <= MaxTotalRules
  /\ TotalFields(sources) + Len(ds.fields) <= MaxTotalFields
  /\ sources' = Append(sources, [key |-> KeyOf(Len(sources) + 1), ds |-> ds])
  /\ UNCHANGED <<df, op, arg, raised, result>>

(* df = pd.read_excel(...) *)
ReadExcel(d) ==
  /\ op = "idle"
  /\ df = EmptyDf
  /\ df' = d
  /\ UNCHANGED <<sources, op, arg, raised, result>>

RunHealthCheck(main_key) ==
  LET out == run_health_check(sources, main_key)
  IN /\ op = "idle"
     /\ op' = "run_health_check"
     /\ arg' = main_key
     /\ raised' = out.raised
     /\ result' = out.value
     /\ UNCHANGED <<sources, df>>

MainOf(k) == sources[Lookup(sources, k)].ds

Call(name, k, value) ==
  /\ op = "idle"
  /\ op' = name
  /\ arg' = k
  /\ raised' = NoError
  /\ result' = value
  /\ UNCHANGED <<sources, df>>

FindMissingHeaders ==
  Call("find_missing_headers", NoKey, find_missing_headers(sources))

CompareRuleCounts(k) ==
  /\ k \in Keys(sources)
  /\ Call("compare_rule_counts", k,
          compare_rule_counts(MainOf(k), OthersOf(sources, k)))

ExclusiveRuleNames(k) ==
  /\ k \in Keys(sources)
  /\ Call("exclusive_rule_names", k,
          exclusive_rule_names(MainOf(k), OthersOf(sources, k)))

SyncCheck(k) ==
  /\ k \in Keys(sources)
  /\ Call("sync_check", k, sync_check(MainOf(k), OthersOf(sources, k)))

RulesFromDf ==
  \E out \in rules_from_df(df) :
    /\ op = "idle"
    /\ op' = "rules_from_df"
    /\ arg' = NoKey
    /\ raised' = out.raised
    /\ result' = out.value
    /\ UNCHANGED <<sources, df>>

Next ==
  \/ \E ds \in RuleDataSets : AddSource(ds)
  \/ \E main_key \in MainKeys : RunHealthCheck(main_key)
  \/ \E k \in MainKeys : CompareRuleCounts(k)
  \/ \E k \in MainKeys : ExclusiveRuleNames(k)
  \/ \E k \in MainKeys : SyncCheck(k)

Spec == Init /\ [][Next]_vars

(* the same engine over sources that declare fields *)
NextFields ==
  \/ \E ds \in FieldDataSets : AddSource(ds)
  \/ \E main_key \in MainKeys : RunHealthCheck(main_key)
  \/ FindMissingHeaders

FieldSpec == Init /\ [][NextFields]_vars

(* rule extraction from a parsed sheet *)
NextExtract ==
  \/ \E d \in DfInputs : ReadExcel(d)
  \/ RulesFromDf

ExtractSpec == Init /\ [][NextExtract]_vars

(* ---------------- properties ---------------- *)

Returned == op = "run_health_check" /\ raised.type = "none"

CallKey == IF arg = NoKey THEN sources[1].key ELSE arg

CallMain == sources[Lookup(sources, CallKey)].ds

CallOthers == OthersOf(sources, CallKey)

OtherIdx == 1..Len(CallOthers)

Other(i) == CallOthers[i].ds

CountDiffers(i) == Other(i).nrows # CallMain.nrows

NamePair(r) == <<normalized_name(r), header_set(r)>>

(* the collection of (normalized name, header set) pairs, with multiplicity *)
PairBag(ds) ==
  [p \in {NamePair(ds.dq_rules[i]) : i \in 1..Len(ds.dq_rules)} |->
     Cardinality({i \in 1..Len(ds.dq_rules) : NamePair(ds.dq_rules[i]) = p})]

(* the last row of main whose normalized name is k *)
LastRow(main, k) ==
  LET rows == {i \in 1..Len(main.dq_rules) : normalized_name(main.dq_rules[i]) = k}
  IN main.dq_rules[CHOOSE i \in rows : \A j \in rows : j <= i]

OutOfSync(main, r) ==
  /\ normalized_name(r) \in rule_names(main)
  /\ header_set(r) # header_set(LastRow(main, normalized_name(r)))

ExpectedMismatches(main, s) ==
  LET sel == SelectSeq(s.dq_rules, LAMBDA r : OutOfSync(main, r))
  IN [i \in 1..Len(sel) |-> sel[i].data_quality_control_name]

FieldMissing(src, f) ==
  \/ ~f.meta.has_header
  \/ f.meta.header = ""
  \/ f.meta.header \notin src.columns

ExpectedMissing(src) ==
  LET sel == SelectSeq(src.fields, LAMBDA f : FieldMissing(src, f))
  IN [i \in 1..Len(sel) |-> sel[i].field_name]

ReportFields ==
  {"ok", "missing_headers", "main_source", "rule_count_ok", "rule_count_msg",
   "exclusives", "mismatches", "emoji"}

(* C1: a Report for exactly two sources with the same row count and the same
   collection of (normalized rule name, header set) pairs, repeated names
   included, has empty exclusives, empty mismatches and ok = true. *)
C1_SameRulesPass ==
  (/\ Returned
   /\ Len(sources) = 2
   /\ Other(1).nrows = CallMain.nrows
   /\ PairBag(Other(1)) = PairBag(CallMain))
  => /\ DOMAIN result.exclusives = {}
     /\ DOMAIN result.mismatches = {}
     /\ result.ok

(* C2 as stated: a Report for a sources mapping with exactly one entry has
   ok = true, no missing headers, no exclusives, no mismatches,
   rule_count_ok = true and the equality message. *)
C2_SingleSourceAlwaysOk ==
  (Returned /\ Len(sources) = 1)
  => /\ result.ok
     /\ DOMAIN result.missing_headers = {}
     /\ DOMAIN result.exclusives = {}
     /\ DOMAIN result.mismatches = {}
     /\ result.rule_count_ok
     /\ result.rule_count_msg[1] = "OK"

(* C2 amended: a Report for a sources mapping with exactly one entry has no
   exclusives, no mismatches, rule_count_ok = true and the equality message
   naming the source; missing_headers is empty exactly when none of the
   source's declared fields is missing, and ok = true exactly then. *)
C2_SingleSource ==
  (Returned /\ Len(sources) = 1)
  => /\ DOMAIN result.exclusives = {}
     /\ DOMAIN result.mismatches = {}
     /\ result.rule_count_ok
     /\ result.rule_count_msg[1] = "OK"
     /\ result.rule_count_msg[3] = sources[1].ds.name
     /\ Len(result.rule_count_msg) = 4
     /\ (DOMAIN result.missing_headers = {}) <=> (ExpectedMissing(sources[1].ds) = <<>>)
     /\ result.ok <=> (ExpectedMissing(sources[1].ds) = <<>>)

C2_Witness ==
  /\ Returned
  /\ Len(sources) = 1
  /\ ExpectedMissing(sources[1].ds) # <<>>
  /\ ~result.ok

(* C3: a call of run_health_check either raises the empty-input error with
   no Report, exactly when sources is empty, or returns a Report with all
   its fields; there is no other outcome, whatever main_key is. *)
C3_OnlyEmptyInputError ==
  op = "run_health_check"
  => \/ /\ raised.type = "ValueError"
        /\ raised.msg = "No sources uploaded."
        /\ sources = <<>>
     \/ /\ raised.type = "none"
        /\ sources # <<>>
        /\ DOMAIN result = ReportFields

(* C4: in a Report, if some non-main source's row count differs from main's
   then rule_count_ok and ok are false and exclusives and mismatches are
   empty; they have entries only when every non-main source has main's row
   count. *)
C4_CountMismatchSkipsChecks ==
  Returned
  => /\ (\E i \in OtherIdx : CountDiffers(i))
          => /\ ~result.rule_count_ok
             /\ ~result.ok
             /\ DOMAIN result.exclusives = {}
             /\ DOMAIN result.mismatches = {}
     /\ (DOMAIN result.exclusives # {} \/ DOMAIN result.mismatches # {})
          => \A i \in OtherIdx : ~CountDiffers(i)

C4_Witness ==
  /\ Returned
  /\ \E i \in OtherIdx : CountDiffers(i)
  /\ \E i \in OtherIdx :
       /\ ~CountDiffers(i)
       /\ rule_names(Other(i)) \ rule_names(CallMain) # {}
  /\ \E i \in OtherIdx : ExpectedMismatches(CallMain, Other(i)) # <<>>

(* C5: the row-count comparison answers true with the equality message
   exactly when every other source has main's row count; otherwise false
   with a message naming main and its count and the FIRST other source, in
   insertion order, whose count differs, with that count, and nothing
   later. *)
C5_FirstCountMismatchReported ==
  (op = "compare_rule_counts" \/ Returned)
  => LET same == IF Returned THEN result.rule_count_ok ELSE result.same
         msg == IF Returned THEN result.rule_count_msg ELSE result.msg
         bad == {i \in OtherIdx : CountDiffers(i)}
     IN IF bad = {}
        THEN /\ same
             /\ msg[1] = "OK"
             /\ msg[3] = CallMain.name
             /\ Len(msg) = 4
        ELSE LET first == CHOOSE i \in bad : \A j \in bad : i <= j
             IN /\ ~same
                /\ msg[1] = "FAIL"
                /\ msg[3] = CallMain.name
                /\ msg[5] = ToString(CallMain.nrows)
                /\ msg[7] = Other(first).name
                /\ msg[9] = ToString(Other(first).nrows)
                /\ Len(msg) = 10

C5_Witness ==
  /\ op = "compare_rule_counts"
  /\ \E i, j \in OtherIdx :
       /\ i < j
       /\ CountDiffers(i)
       /\ CountDiffers(j)
       /\ Other(i).name # Other(j).name
       /\ Other(i).nrows # Other(j).nrows

(* C6: exclusive_rule_names returns a mapping whose keys are the display
   names of the other sources that have a normalized rule name main lacks,
   and whose value for each such source is that source's own difference,
   sorted; such a rule is listed under its source. *)
C6_ExclusivesPerSource ==
  op = "exclusive_rule_names"
  => /\ DOMAIN result =
          {Other(i).name : i \in {j \in OtherIdx :
              rule_names(Other(j)) \ rule_names(CallMain) # {}}}
     /\ \A i \in OtherIdx :
          LET diff == rule_names(Other(i)) \ rule_names(CallMain)
          IN diff # {} => result[Other(i).name] = Sorted(diff)

(* C7: the mismatch list sync_check produces for another source s is
   exactly the original names of s's rules, in s's order and with repeats,
   whose normalized name main has and whose header set differs from that of
   main's last row of that name; a source with no such rule has no entry. *)
C7_MismatchesPerSource ==
  op = "sync_check"
  => \A i \in OtherIdx :
       LET exp == ExpectedMismatches(CallMain, Other(i))
       IN IF exp = <<>> THEN Other(i).name \notin DOMAIN result
          ELSE /\ Other(i).name \in DOMAIN result
               /\ result[Other(i).name] = exp

(* C8: in a Report, a source's display name is a key of missing_headers
   exactly when one of its declared fields is missing, and the value is the
   list of that source's own missing field names in field order; this
   covers main too. *)
C8_MissingHeadersPerSource ==
  Returned
  => \A i \in 1..Len(sources) :
       LET src == sources[i].ds
           exp == ExpectedMissing(src)
       IN IF exp = <<>> THEN src.name \notin DOMAIN result.missing_headers
          ELSE /\ src.name \in DOMAIN result.missing_headers
               /\ result.missing_headers[src.name] = exp

(* C9: rule extraction from a table lacking a required column raises the
   schema error, returns no rules, and lists the absent required columns in
   sorted order. *)
C9_MissingColumnsSorted ==
  (op = "rules_from_df" /\ ~(RequiredColumns \subseteq df.columns))
  => /\ raised.type = "ValueError"
     /\ Len(result) = 0
     /\ raised.cols =
          SelectSeq(<<"data_quality_control_name", "header">>,
                    LAMBDA c : c \notin df.columns)

(* C10: when the Report has ok = true, every non-main source has exactly
   main's set of normalized rule names. *)
C10_OkMeansSameRuleNames ==
  (Returned /\ result.ok)
  => \A i \in OtherIdx : rule_names(Other(i)) = rule_names(CallMain)

====
